---- MODULE Spec2Model ----
(***************************************************************************)
(* A model of the elven_parse ELF decoder: the primitive endian-aware      *)
(* integer decoder (utils.rs), the two file-header parsers (file.rs,       *)
(* lib.rs) and the program-header, section-header and symbol-table         *)
(* iterators (program.rs, section/mod.rs, section/symtab.rs).              *)
(*                                                                         *)
(* Bytes are the integers 0..255 and a buffer is a sequence of bytes.  The *)
(* code indexes buffers from 0; sequences are indexed from 1, so offset o  *)
(* of the code is element o + 1 here.  A decoded integer of w bytes is kept *)
(* at its width as w/2 limbs of 16 bits, least significant limb first      *)
(* (one limb for a one-byte integer), because a u32 or a usize does not fit *)
(* the integers of the model checker.                                      *)
(***************************************************************************)
EXTENDS Integers, Sequences, FiniteSets, TLC

VARIABLES
    elf,      \* the byte buffer handed to every operation (&[u8])
    probe,    \* the arguments of one call of the primitive decoder
    dec,      \* the result of that call
    fh,       \* the result of FileHeader::parse (file.rs)
    eh,       \* the result of Elf::parse (lib.rs)
    pit,      \* the ProgramIterator and what it has returned so far
    sit,      \* the SectionIterator and what it has returned so far
    yit,      \* the SymTabIterator and what it has returned so far
    overflow_checks  \* whether the build panics on arithmetic overflow

vars == <<elf, probe, dec, fh, eh, pit, sit, yit, overflow_checks>>

(***************************************************************************)
(* Bounds of the model.                                                    *)
(***************************************************************************)
\* longest buffer handed to the primitive decoder on its own
MaxBuf == 9
\* bytes of slack after the longest file header (64 bytes)
HdrSlack == 2
\* largest entry count an iterator is constructed with
MaxCount == 3

(***************************************************************************)
(* Results and options.                                                    *)
(***************************************************************************)
Ok(x) == [ok |-> TRUE, v |-> x]
Err(e) == [ok |-> FALSE, err |-> e]
Some(x) == [some |-> TRUE, v |-> x]
None == [some |-> FALSE]
\* the value an operation not yet called has "returned"
Idle == [ok |-> FALSE, err |-> "idle"]

Byte == 0 .. 255
Limb == 256 * 256

Reverse(s) == [i \in 1 .. Len(s) |-> s[Len(s) + 1 - i]]

\* a buffer of n bytes, all different, chosen by seed k
Pattern(k, n) == [i \in 1 .. n |-> (k + 37 * i) % 256]

(***************************************************************************)
(* <[u8]>::get: a range start..end is Some exactly when start <= end and   *)
(* end <= len; an index is Some exactly when it is below len.              *)
(***************************************************************************)
get(bytes, start, end) ==
    IF start <= end /\ end <= Len(bytes)
    THEN Some(SubSeq(bytes, start + 1, end))
    ELSE None

get_at(bytes, i) ==
    IF i < Len(bytes) THEN Some(bytes[i + 1]) ELSE None

\* slice.get(start..)
get_from(bytes, start) ==
    IF start <= Len(bytes)
    THEN Some(SubSeq(bytes, start + 1, Len(bytes)))
    ELSE None

(***************************************************************************)
(* from_le_bytes / from_be_bytes of an array of w bytes: the integer       *)
(* sum arr[k] * 256^k (little-endian) or sum arr[k] * 256^(w-1-k)          *)
(* (big-endian), written in limbs of 16 bits.                              *)
(***************************************************************************)
from_le_bytes(arr) ==
    IF Len(arr) = 1 THEN <<arr[1]>>
    ELSE [i \in 1 .. (Len(arr) \div 2) |-> arr[2 * i - 1] + 256 * arr[2 * i]]

from_be_bytes(arr) ==
    IF Len(arr) = 1 THEN <<arr[1]>>
    ELSE [i \in 1 .. (Len(arr) \div 2) |->
            arr[Len(arr) - 2 * i + 2] + 256 * arr[Len(arr) - 2 * i + 1]]

\* mutant: the arm for ElfData::None decodes big-endian
endian_parse_none_be(w, start, end, bytes, e_data) ==
    LET sl == get(bytes, start, end) IN
    IF ~sl.some THEN Err("OffsetCalculationFailure")
    ELSE IF Len(sl.v) # w THEN Err("OffsetCalculationFailure")
    ELSE Ok(IF e_data = "ElfData2Lsb" THEN from_le_bytes(sl.v)
            ELSE from_be_bytes(sl.v))

\* mutant: a slice longer than the integer is cut to its first w bytes
endian_parse_prefix(w, start, end, bytes, e_data) ==
    LET sl == get(bytes, start, end) IN
    IF ~sl.some THEN Err("OffsetCalculationFailure")
    ELSE IF Len(sl.v) < w THEN Err("OffsetCalculationFailure")
    ELSE Ok(IF e_data = "ElfData2Msb" THEN from_be_bytes(SubSeq(sl.v, 1, w))
            ELSE from_le_bytes(SubSeq(sl.v, 1, w)))

(***************************************************************************)
(* Integer::endian_parse for an integer type of w bytes (usize: 8, u32: 4, *)
(* u16: 2): bytes.get(range) or OffsetCalculationFailure, try_into an      *)
(* array of w bytes or OffsetCalculationFailure, then the byte order.      *)
(***************************************************************************)
endian_parse(w, start, end, bytes, e_data) ==
    LET sl == get(bytes, start, end) IN
    IF ~sl.some THEN Err("OffsetCalculationFailure")
    ELSE IF Len(sl.v) # w THEN Err("OffsetCalculationFailure")
    ELSE Ok(CASE e_data = "ElfData2Lsb" -> from_le_bytes(sl.v)
              [] e_data = "ElfData2Msb" -> from_be_bytes(sl.v)
              [] OTHER                  -> from_le_bytes(sl.v))

usize_endian_parse(start, end, bytes, e_data) == endian_parse(8, start, end, bytes, e_data)
u32_endian_parse(start, end, bytes, e_data) == endian_parse(4, start, end, bytes, e_data)
u16_endian_parse(start, end, bytes, e_data) == endian_parse(2, start, end, bytes, e_data)

ElfDataSet == {"None", "ElfData2Lsb", "ElfData2Msb"}
ElfClassSet == {"None", "Class32", "Class64"}

(***************************************************************************)
(* The file header.                                                        *)
(***************************************************************************)
\* b"\x7FELF"
ElfMagic == <<127, 69, 76, 70>>

\* #[cfg(target_pointer_width = ...)]: the host the crate is built for
target_pointer_width == 64

\* mutant: only the first three bytes of the magic are compared
magic_ok_prefix3(elf_) == get(elf_, 0, 3) = Some(<<127, 69, 76>>)

\* the magic check on elf.get(0x00..0x04)
magic_ok(elf_) == get(elf_, 0, 4) = Some(ElfMagic)

\* every failure of a field reported as BadElf
FirstErr_as_bad_elf(rs) == Err("BadElf")

\* the first failure of a sequence of results, as the ? operator returns it
FirstErr(rs) ==
    LET bad == {i \in 1 .. Len(rs) : ~rs[i].ok}
        first == CHOOSE i \in bad : \A j \in bad : i <= j
    IN  Err(rs[first].err)

AllOk(rs) == \A i \in 1 .. Len(rs) : rs[i].ok

\* `as usize` of a u32: zero extension to four limbs
as_usize(v) == [i \in 1 .. 4 |-> IF i <= Len(v) THEN v[i] ELSE 0]

\* a u32 decoded and widened: u32::endian_parse(..)? as usize
u32_as_usize(r) == IF r.ok THEN Ok(as_usize(r.v)) ELSE r

\* mutant: every class byte other than 1 is taken for 64-bit
class_of_default64(elf_) ==
    IF get_at(elf_, 4) = Some(1) THEN "Class32" ELSE "Class64"

\* e_class from byte 4
class_of(elf_) ==
    IF get_at(elf_, 4) = Some(1) THEN "Class32"
    ELSE IF get_at(elf_, 4) = Some(2) THEN "Class64"
    ELSE "None"

\* e_data from byte 5
data_of(elf_) ==
    IF get_at(elf_, 5) = Some(1) THEN "ElfData2Lsb"
    ELSE IF get_at(elf_, 5) = Some(2) THEN "ElfData2Msb"
    ELSE "None"

\* the OS-ABI table with the Default of ElfOsAbi for the bytes it does not
\* name
abi_of_default_standalone(e) ==
    CASE e = 0   -> "Sysv"
      [] e = 1   -> "Hpux"
      [] e = 2   -> "Netbsd"
      [] e = 3   -> "Gnu"
      [] e = 6   -> "Solaris"
      [] e = 8   -> "Aix"
      [] e = 9   -> "Irix"
      [] e = 10  -> "Freebsd"
      [] e = 11  -> "Tru64"
      [] e = 12  -> "Modesto"
      [] e = 64  -> "Armeabi"
      [] e = 97  -> "Arm"
      [] OTHER   -> "Standalone"

\* e_abi from byte 7 (the byte is present)
abi_of(e) ==
    CASE e = 0   -> "Sysv"
      [] e = 1   -> "Hpux"
      [] e = 2   -> "Netbsd"
      [] e = 3   -> "Gnu"
      [] e = 6   -> "Solaris"
      [] e = 8   -> "Aix"
      [] e = 9   -> "Irix"
      [] e = 10  -> "Freebsd"
      [] e = 11  -> "Tru64"
      [] e = 12  -> "Modesto"
      [] e = 64  -> "Armeabi"
      [] e = 97  -> "Arm"
      [] e = 255 -> "Standalone"
      [] OTHER   -> "Sysv"

\* e_type from the pattern match on elf.get(0x10..0x12)
type_of(elf_) ==
    LET o == get(elf_, 16, 18) IN
    IF ~o.some THEN "None"
    ELSE CASE o.v = <<0, 0>> -> "None"
           [] o.v = <<1, 0>> -> "Relocatable"
           [] o.v = <<2, 0>> -> "Executable"
           [] o.v = <<3, 0>> -> "SharedObject"
           [] o.v = <<4, 0>> -> "CoreFile"
           [] o.v[1] = 254   -> "OsSpecific"
           [] o.v[1] = 255   -> "CpuSpecific"
           [] OTHER          -> "None"

\* e_machine from the pattern match on elf.get(0x12..0x14)
machine_of(elf_) ==
    LET o == get(elf_, 18, 20) IN
    IF ~o.some THEN "UnDefined"
    ELSE CASE o.v = <<3, 0>>   -> "Intel80386"
           [] o.v = <<62, 0>>  -> "Amd64"
           [] o.v = <<40, 0>>  -> "Arm"
           [] o.v = <<243, 0>> -> "Riscv"
           [] o.v = <<247, 0>> -> "Bpf"
           [] OTHER            -> "UnDefined"

\* mutant: the second version check is left out
version_ok_skipped(elf_) == TRUE

\* the second version check, on elf.get(0x14..0x18)
version_ok(elf_) == get(elf_, 20, 24) = Some(<<1, 0, 0, 0>>)

\* mutant: the address fields are 8 bytes wide whatever the class
addr_width_always8(class) == 8

\* width of e_entry, e_phoff and e_shoff (file.rs 207-211)
addr_width(class) ==
    CASE class = "Class64" -> 8
      [] class = "Class32" -> 4
      [] OTHER             -> 8

(***************************************************************************)
(* FileHeader::parse (file.rs).                                            *)
(***************************************************************************)
FileHeader_parse(elf_) ==
    IF ~magic_ok(elf_) THEN Err("BadElf")
    ELSE LET class == class_of(elf_) IN
    IF target_pointer_width = 32 /\ class \in {"Class64", "None"}
    THEN Err("UnsupportedClass")
    ELSE LET data == data_of(elf_) IN
    IF get_at(elf_, 6) # Some(1) THEN Err("BadElf")
    ELSE IF ~get_at(elf_, 7).some THEN Err("BadElf")
    ELSE IF ~version_ok(elf_) THEN Err("BadElf")
    ELSE
    LET w    == addr_width(class)
        p0   == 24
        addr(s) == IF class = "Class32"
                   THEN u32_as_usize(u32_endian_parse(s, s + w, elf_, data))
                   ELSE usize_endian_parse(s, s + w, elf_, data)
        p1   == p0 + 3 * w
        rs   == << addr(p0), addr(p0 + w), addr(p0 + 2 * w),
                   u32_endian_parse(p1, p1 + 4, elf_, data),
                   u16_endian_parse(p1 + 4, p1 + 6, elf_, data),
                   u16_endian_parse(p1 + 6, p1 + 8, elf_, data),
                   u16_endian_parse(p1 + 8, p1 + 10, elf_, data),
                   u16_endian_parse(p1 + 10, p1 + 12, elf_, data),
                   u16_endian_parse(p1 + 12, p1 + 14, elf_, data),
                   u16_endian_parse(p1 + 14, p1 + 16, elf_, data) >>
    IN  IF ~AllOk(rs) THEN FirstErr(rs)
        ELSE Ok([e_class     |-> class,
                 e_data      |-> data,
                 e_abi       |-> abi_of(get_at(elf_, 7).v),
                 e_type      |-> type_of(elf_),
                 e_machine   |-> machine_of(elf_),
                 e_entry     |-> rs[1].v,
                 e_phoff     |-> rs[2].v,
                 e_shoff     |-> rs[3].v,
                 e_flags     |-> rs[4].v,
                 e_ehsize    |-> rs[5].v,
                 e_phentsize |-> rs[6].v,
                 e_phnum     |-> rs[7].v,
                 e_shentsize |-> rs[8].v,
                 e_shnum     |-> rs[9].v,
                 e_shstrndx  |-> rs[10].v])

(***************************************************************************)
(* Elf::parse (lib.rs): the same checks, but every address field is read   *)
(* with usize::endian_parse over a range of the class's width.             *)
(***************************************************************************)
Elf_parse(elf_) ==
    IF ~magic_ok(elf_) THEN Err("BadElf")
    ELSE LET class == class_of(elf_)
             data  == data_of(elf_) IN
    IF get_at(elf_, 6) # Some(1) THEN Err("BadElf")
    ELSE IF ~get_at(elf_, 7).some THEN Err("BadElf")
    ELSE IF ~version_ok(elf_) THEN Err("BadElf")
    ELSE
    LET w    == addr_width(class)
        p0   == 24
        p1   == p0 + 3 * w
        rs   == << usize_endian_parse(p0, p0 + w, elf_, data),
                   usize_endian_parse(p0 + w, p0 + 2 * w, elf_, data),
                   usize_endian_parse(p0 + 2 * w, p0 + 3 * w, elf_, data),
                   u32_endian_parse(p1, p1 + 4, elf_, data),
                   u16_endian_parse(p1 + 4, p1 + 6, elf_, data),
                   u16_endian_parse(p1 + 6, p1 + 8, elf_, data),
                   u16_endian_parse(p1 + 8, p1 + 10, elf_, data),
                   u16_endian_parse(p1 + 10, p1 + 12, elf_, data),
                   u16_endian_parse(p1 + 12, p1 + 14, elf_, data),
                   u16_endian_parse(p1 + 14, p1 + 16, elf_, data) >>
    IN  IF ~AllOk(rs) THEN FirstErr(rs)
        ELSE Ok([e_class       |-> class,
                 e_data        |-> data,
                 e_abi         |-> abi_of(get_at(elf_, 7).v),
                 e_type        |-> type_of(elf_),
                 e_machine     |-> machine_of(elf_),
                 e_entry       |-> rs[1].v,
                 e_phoff       |-> rs[2].v,
                 e_shoff       |-> rs[3].v,
                 e_flags       |-> rs[4].v,
                 e_ehsize      |-> rs[5].v,
                 e_phentsize   |-> rs[6].v,
                 e_phnum       |-> rs[7].v,
                 e_shentrysize |-> rs[8].v,
                 e_shnum       |-> rs[9].v,
                 e_shstrndx    |-> rs[10].v])

(***************************************************************************)
(* usize arithmetic on four limbs of 16 bits.                              *)
(***************************************************************************)
\* the usize of a natural number below 2^31
U(n) == <<n % Limb, n \div Limb, 0, 0>>

\* a usize below 2^31, and its value
Small(v) == v[3] = 0 /\ v[4] = 0 /\ v[2] < 32768
ToNat(v) == v[1] + Limb * v[2]

\* a + b modulo 2^64 (sum) and whether the addition overflowed (carry)
AddU(a, b) ==
    LET s1 == a[1] + b[1]
        s2 == a[2] + b[2] + s1 \div Limb
        s3 == a[3] + b[3] + s2 \div Limb
        s4 == a[4] + b[4] + s3 \div Limb
    IN  [sum   |-> <<s1 % Limb, s2 % Limb, s3 % Limb, s4 % Limb>>,
         carry |-> s4 \div Limb = 1]

\* a <= b
LeU(a, b) ==
    \/ a = b
    \/ \E i \in 1 .. 4 : a[i] < b[i] /\ \A j \in (i + 1) .. 4 : a[j] = b[j]

(***************************************************************************)
(* &elf[start..end] for usize start and end: Index panics when start > end *)
(* or end > len.  The sum that computes end panics on overflow in a build  *)
(* with overflow checks and wraps in one without.                          *)
(***************************************************************************)
\* the slice &bytes[start .. start + size], or a panic
index_range(bytes, start, size, checks) ==
    LET e == AddU(start, size) IN
    IF e.carry /\ checks THEN [panic |-> TRUE]
    ELSE IF ~LeU(start, e.sum) THEN [panic |-> TRUE]
    ELSE IF ~(Small(e.sum) /\ ToNat(e.sum) <= Len(bytes)) THEN [panic |-> TRUE]
    ELSE [panic |-> FALSE,
          v     |-> SubSeq(bytes, ToNat(start) + 1, ToNat(e.sum))]

(***************************************************************************)
(* Program headers (program.rs).                                           *)
(***************************************************************************)
\* ProgramHeader::new
ProgramHeader_new ==
    [p_type |-> "None", p_flags |-> <<FALSE, FALSE, FALSE>>,
     p_offset |-> U(0), p_vaddr |-> U(0), p_paddr |-> U(0),
     p_filesz |-> U(0), p_memsz |-> U(0), p_align |-> U(0)]

\* the segment type with the arms of the reserved ranges ahead of the arms
\* of the GNU types
ptype_of_ranges_first(ent) ==
    LET o == get(ent, 0, 4) IN
    IF ~o.some THEN "None"
    ELSE CASE o.v = <<0, 0, 0, 0>>        -> "PtNull"
           [] o.v = <<1, 0, 0, 0>>        -> "PtLoad"
           [] o.v = <<2, 0, 0, 0>>        -> "PtDynamic"
           [] o.v = <<3, 0, 0, 0>>        -> "PtInterp"
           [] o.v = <<4, 0, 0, 0>>        -> "PtNote"
           [] o.v = <<5, 0, 0, 0>>        -> "PtShlib"
           [] o.v = <<6, 0, 0, 0>>        -> "PtPhdr"
           [] o.v[4] \in 96 .. 111        -> "PtOs"
           [] o.v[4] \in 112 .. 127       -> "PtProc"
           [] OTHER                       -> "None"

\* the segment type from the pattern match on elf.get(0x00..0x04)
ptype_of(ent) ==
    LET o == get(ent, 0, 4) IN
    IF ~o.some THEN "None"
    ELSE CASE o.v = <<0, 0, 0, 0>>        -> "PtNull"
           [] o.v = <<1, 0, 0, 0>>        -> "PtLoad"
           [] o.v = <<2, 0, 0, 0>>        -> "PtDynamic"
           [] o.v = <<3, 0, 0, 0>>        -> "PtInterp"
           [] o.v = <<4, 0, 0, 0>>        -> "PtNote"
           [] o.v = <<5, 0, 0, 0>>        -> "PtShlib"
           [] o.v = <<6, 0, 0, 0>>        -> "PtPhdr"
           [] o.v = <<80, 229, 116, 100>> -> "PtGnuEhFrame"
           [] o.v = <<81, 229, 116, 100>> -> "PtGnuStack"
           [] o.v = <<82, 229, 116, 100>> -> "PtGnuRelro"
           [] o.v = <<83, 229, 116, 100>> -> "PtGnuProperty"
           [] o.v[4] \in 96 .. 111        -> "PtOs"
           [] o.v[4] \in 112 .. 127       -> "PtProc"
           [] OTHER                       -> "None"

\* Perm(read, write, exec) from the flags word: PF_R = 4, PF_W = 2, PF_X = 1
perm_of(flags) ==
    << (flags[1] \div 4) % 2 = 1, (flags[1] \div 2) % 2 = 1, flags[1] % 2 = 1 >>

\* ProgramHeader::parse reading the flags of a 64-bit entry where a
\* 32-bit entry has them, at 0x18
ProgramHeader_parse_flags_late(self, ent, class, data) ==
    LET u32at(s) == u32_as_usize(u32_endian_parse(s, s + 4, ent, data))
        u64at(s) == usize_endian_parse(s, s + 8, ent, data)
        typed == [self EXCEPT !.p_type = ptype_of(ent)]
    IN
    IF class = "Class32" THEN
        LET rs == << u32at(4), u32at(8), u32at(12), u32at(16), u32at(20),
                     u32at(24), u32at(28) >>
        IN  IF ~AllOk(rs) THEN FirstErr(rs)
            ELSE Ok([typed EXCEPT !.p_offset = rs[1].v, !.p_vaddr = rs[2].v,
                                  !.p_paddr = rs[3].v, !.p_filesz = rs[4].v,
                                  !.p_memsz = rs[5].v,
                                  !.p_flags = perm_of(rs[6].v),
                                  !.p_align = rs[7].v])
    ELSE IF class = "Class64" THEN
        LET rs == << u32_endian_parse(24, 28, ent, data), u64at(8), u64at(16),
                     u64at(24), u64at(32), u64at(40), u64at(48) >>
        IN  IF ~AllOk(rs) THEN FirstErr(rs)
            ELSE Ok([typed EXCEPT !.p_flags = perm_of(rs[1].v),
                                  !.p_offset = rs[2].v, !.p_vaddr = rs[3].v,
                                  !.p_paddr = rs[4].v, !.p_filesz = rs[5].v,
                                  !.p_memsz = rs[6].v, !.p_align = rs[7].v])
    ELSE Ok(typed)

\* ProgramHeader::parse: self with the fields of the entry ent
ProgramHeader_parse(self, ent, class, data) ==
    LET u32at(s) == u32_as_usize(u32_endian_parse(s, s + 4, ent, data))
        u64at(s) == usize_endian_parse(s, s + 8, ent, data)
        typed == [self EXCEPT !.p_type = ptype_of(ent)]
    IN
    IF class = "Class32" THEN
        LET rs == << u32at(4), u32at(8), u32at(12), u32at(16), u32at(20),
                     u32at(24), u32at(28) >>
        IN  IF ~AllOk(rs) THEN FirstErr(rs)
            ELSE Ok([typed EXCEPT !.p_offset = rs[1].v, !.p_vaddr = rs[2].v,
                                  !.p_paddr = rs[3].v, !.p_filesz = rs[4].v,
                                  !.p_memsz = rs[5].v,
                                  !.p_flags = perm_of(rs[6].v),
                                  !.p_align = rs[7].v])
    ELSE IF class = "Class64" THEN
        LET rs == << u32_endian_parse(4, 8, ent, data), u64at(8), u64at(16),
                     u64at(24), u64at(32), u64at(40), u64at(48) >>
        IN  IF ~AllOk(rs) THEN FirstErr(rs)
            ELSE Ok([typed EXCEPT !.p_flags = perm_of(rs[1].v),
                                  !.p_offset = rs[2].v, !.p_vaddr = rs[3].v,
                                  !.p_paddr = rs[4].v, !.p_filesz = rs[5].v,
                                  !.p_memsz = rs[6].v, !.p_align = rs[7].v])
    ELSE Ok(typed)

\* ProgramIterator::new, with what the iterator has returned so far: ret is
\* the value of the last call of next ("new" before the first, "panic" when
\* the call panicked), yielded the items returned, in order
ProgramIterator_new(e_phoff, e_phentsize, e_phnum, class, data) ==
    [program_header |-> ProgramHeader_new,
     offset    |-> e_phoff,
     phentsize |-> e_phentsize,
     phnum     |-> e_phnum,
     class     |-> class,
     data      |-> data,
     ret       |-> "new",
     yielded   |-> << >>,
     made      |-> [offset |-> e_phoff, count |-> e_phnum]]

\* ProgramIterator::next without the decrement of the count
ProgramIterator_next_keeps_count(it, elf_, checks) ==
    IF it.phnum = 0 THEN [it EXCEPT !.ret = "None"]
    ELSE
    LET sl == index_range(elf_, it.offset, U(it.phentsize), checks) IN
    IF sl.panic THEN [it EXCEPT !.ret = "panic"]
    ELSE
    LET r == ProgramHeader_parse(it.program_header, sl.v, it.class, it.data) IN
    IF ~r.ok THEN [it EXCEPT !.ret = "None"]
    ELSE [it EXCEPT !.program_header = r.v,
                    !.offset = AddU(it.offset, U(it.phentsize)).sum,
                    !.ret = "Some",
                    !.yielded = Append(it.yielded, r.v)]

\* ProgramIterator::next stepping over an entry whose parse fails
ProgramIterator_next_skips_bad(it, elf_, checks) ==
    IF it.phnum = 0 THEN [it EXCEPT !.ret = "None"]
    ELSE
    LET sl == index_range(elf_, it.offset, U(it.phentsize), checks) IN
    IF sl.panic THEN [it EXCEPT !.ret = "panic"]
    ELSE
    LET r == ProgramHeader_parse(it.program_header, sl.v, it.class, it.data) IN
    IF ~r.ok THEN [it EXCEPT !.offset = AddU(it.offset, U(it.phentsize)).sum,
                             !.phnum = it.phnum - 1,
                             !.ret = "None"]
    ELSE [it EXCEPT !.program_header = r.v,
                    !.offset = AddU(it.offset, U(it.phentsize)).sum,
                    !.phnum = it.phnum - 1,
                    !.ret = "Some",
                    !.yielded = Append(it.yielded, r.v)]

\* ProgramIterator::next
ProgramIterator_next(it, elf_, checks) ==
    IF it.phnum = 0 THEN [it EXCEPT !.ret = "None"]
    ELSE
    LET sl == index_range(elf_, it.offset, U(it.phentsize), checks) IN
    IF sl.panic THEN [it EXCEPT !.ret = "panic"]
    ELSE
    LET r == ProgramHeader_parse(it.program_header, sl.v, it.class, it.data) IN
    IF ~r.ok THEN [it EXCEPT !.ret = "None"]
    ELSE [it EXCEPT !.program_header = r.v,
                    !.offset = AddU(it.offset, U(it.phentsize)).sum,
                    !.phnum = it.phnum - 1,
                    !.ret = "Some",
                    !.yielded = Append(it.yielded, r.v)]

(***************************************************************************)
(* Section headers (section/mod.rs).                                       *)
(***************************************************************************)
\* SectionHeader::default
SectionHeader_default ==
    [sh_name |-> <<0, 0>>, sh_type |-> "None", sh_flags |-> U(0),
     sh_addr |-> U(0), sh_offset |-> U(0), sh_size |-> U(0),
     sh_link |-> <<0, 0>>, sh_info |-> <<0, 0>>, sh_addralign |-> U(0),
     sh_entsize |-> U(0), sh_ndx |-> 0]

\* the section type from the pattern match on elf.get(0x04..0x08)
shtype_of(ent) ==
    LET o == get(ent, 4, 8) IN
    IF ~o.some THEN "None"
    ELSE CASE o.v = <<0, 0, 0, 0>>  -> "ShtNull"
           [] o.v = <<1, 0, 0, 0>>  -> "ShtProgBits"
           [] o.v = <<2, 0, 0, 0>>  -> "ShtSymTab"
           [] o.v = <<3, 0, 0, 0>>  -> "ShtStrTab"
           [] o.v = <<4, 0, 0, 0>>  -> "ShtRela"
           [] o.v = <<5, 0, 0, 0>>  -> "ShtHash"
           [] o.v = <<6, 0, 0, 0>>  -> "ShtDynamic"
           [] o.v = <<7, 0, 0, 0>>  -> "ShtNotes"
           [] o.v = <<8, 0, 0, 0>>  -> "ShtNoBits"
           [] o.v = <<9, 0, 0, 0>>  -> "ShtRel"
           [] o.v = <<10, 0, 0, 0>> -> "ShtShlib"
           [] o.v = <<11, 0, 0, 0>> -> "ShtDynSym"
           [] o.v = <<14, 0, 0, 0>> -> "ShtInitArray"
           [] o.v = <<15, 0, 0, 0>> -> "ShtFInitArray"
           [] o.v = <<16, 0, 0, 0>> -> "ShtPreInitArray"
           [] o.v = <<17, 0, 0, 0>> -> "ShtGroup"
           [] o.v = <<18, 0, 0, 0>> -> "ShtSymTabShndx"
           [] o.v = <<19, 0, 0, 0>> -> "ShtRelr"
           [] o.v = <<20, 0, 0, 0>> -> "ShtNum"
           [] o.v = <<245, 255, 255, 6>> -> "ShtGnuAttributes"
           [] o.v = <<246, 255, 255, 6>> -> "ShtGnuHash"
           [] o.v = <<247, 255, 255, 6>> -> "ShtGnuLibList"
           [] o.v[4] = 6 -> "ShtOs"
           [] o.v[4] = 7 -> "ShtProc"
           [] o.v[4] = 8 -> "ShtUser"
           [] OTHER      -> "None"

\* SectionHeader::parse taking the link of a 64-bit entry for an 8-byte
\* field, so that info, alignment and entry size are read 4 bytes late
SectionHeader_parse_link_wide(self, ent, class, data) ==
    LET u32at(s) == u32_endian_parse(s, s + 4, ent, data)
        u32w(s)  == u32_as_usize(u32at(s))
        u64at(s) == usize_endian_parse(s, s + 8, ent, data)
        name == u32at(0)
    IN
    IF ~name.ok THEN name
    ELSE
    LET typed == [self EXCEPT !.sh_name = name.v, !.sh_type = shtype_of(ent)]
        rs == IF class = "Class32"
              THEN << u32w(8), u32w(12), u32w(16), u32w(20), u32at(24),
                      u32at(28), u32w(32), u32w(36) >>
              ELSE << u64at(8), u64at(16), u64at(24), u64at(32), u32at(40),
                      u32at(48), u64at(52), u64at(60) >>
    IN  IF class \notin {"Class32", "Class64"} THEN Ok(typed)
        ELSE IF ~AllOk(rs) THEN FirstErr(rs)
        ELSE Ok([typed EXCEPT !.sh_flags = rs[1].v, !.sh_addr = rs[2].v,
                              !.sh_offset = rs[3].v, !.sh_size = rs[4].v,
                              !.sh_link = rs[5].v, !.sh_info = rs[6].v,
                              !.sh_addralign = rs[7].v,
                              !.sh_entsize = rs[8].v])

\* SectionHeader::parse: self with the fields of the entry ent
SectionHeader_parse(self, ent, class, data) ==
    LET u32at(s) == u32_endian_parse(s, s + 4, ent, data)
        u32w(s)  == u32_as_usize(u32at(s))
        u64at(s) == usize_endian_parse(s, s + 8, ent, data)
        name == u32at(0)
    IN
    IF ~name.ok THEN name
    ELSE
    LET typed == [self EXCEPT !.sh_name = name.v, !.sh_type = shtype_of(ent)]
        rs == IF class = "Class32"
              THEN << u32w(8), u32w(12), u32w(16), u32w(20), u32at(24),
                      u32at(28), u32w(32), u32w(36) >>
              ELSE << u64at(8), u64at(16), u64at(24), u64at(32), u32at(40),
                      u32at(44), u64at(48), u64at(56) >>
    IN  IF class \notin {"Class32", "Class64"} THEN Ok(typed)
        ELSE IF ~AllOk(rs) THEN FirstErr(rs)
        ELSE Ok([typed EXCEPT !.sh_flags = rs[1].v, !.sh_addr = rs[2].v,
                              !.sh_offset = rs[3].v, !.sh_size = rs[4].v,
                              !.sh_link = rs[5].v, !.sh_info = rs[6].v,
                              !.sh_addralign = rs[7].v,
                              !.sh_entsize = rs[8].v])

\* SectionIterator::new, with what the iterator has returned so far
SectionIterator_new(e_shoff, e_shentsize, e_shnum, class, data) ==
    [ndx       |-> 0,
     section_header |-> SectionHeader_default,
     offset    |-> e_shoff,
     shentsize |-> e_shentsize,
     shnum     |-> e_shnum,
     class     |-> class,
     data      |-> data,
     ret       |-> "new",
     yielded   |-> << >>,
     made      |-> [offset |-> e_shoff, count |-> e_shnum]]

\* mutant: the ordinal is advanced before it is stored in the header
SectionIterator_next_ndx_late(it, elf_, checks) ==
    IF it.shnum = 0 THEN [it EXCEPT !.ret = "None"]
    ELSE
    LET sl == index_range(elf_, it.offset, U(it.shentsize), checks) IN
    IF sl.panic THEN [it EXCEPT !.ret = "panic"]
    ELSE
    LET r == SectionHeader_parse(it.section_header, sl.v, it.class, it.data) IN
    IF ~r.ok THEN [it EXCEPT !.ret = "None"]
    ELSE LET h == [r.v EXCEPT !.sh_ndx = it.ndx + 1] IN
         [it EXCEPT !.section_header = h,
                    !.offset = AddU(it.offset, U(it.shentsize)).sum,
                    !.shnum = it.shnum - 1,
                    !.ndx = it.ndx + 1,
                    !.ret = "Some",
                    !.yielded = Append(it.yielded, h)]

\* SectionIterator::next
SectionIterator_next(it, elf_, checks) ==
    IF it.shnum = 0 THEN [it EXCEPT !.ret = "None"]
    ELSE
    LET sl == index_range(elf_, it.offset, U(it.shentsize), checks) IN
    IF sl.panic THEN [it EXCEPT !.ret = "panic"]
    ELSE
    LET r == SectionHeader_parse(it.section_header, sl.v, it.class, it.data) IN
    IF ~r.ok THEN [it EXCEPT !.ret = "None"]
    ELSE LET h == [r.v EXCEPT !.sh_ndx = it.ndx] IN
         [it EXCEPT !.section_header = h,
                    !.offset = AddU(it.offset, U(it.shentsize)).sum,
                    !.shnum = it.shnum - 1,
                    !.ndx = it.ndx + 1,
                    !.ret = "Some",
                    !.yielded = Append(it.yielded, h)]

(***************************************************************************)
(* Symbol tables (section/symtab.rs).                                      *)
(***************************************************************************)
\* Integer::endian_parse for u8 and u64, which symtab.rs calls
u8_endian_parse(start, end, bytes, e_data) == endian_parse(1, start, end, bytes, e_data)
u64_endian_parse(start, end, bytes, e_data) == endian_parse(8, start, end, bytes, e_data)

\* SymTabEnt::default
SymTabEnt_default ==
    [st_name |-> <<0, 0>>, st_value |-> U(0), st_size |-> U(0),
     st_info |-> "None", st_other |-> <<0>>, st_shndx |-> <<0>>]

\* From<u8> for SymType
SymType_from(value) ==
    CASE value = 0  -> "None"
      [] value = 1  -> "Object"
      [] value = 2  -> "Func"
      [] value = 3  -> "Section"
      [] value = 4  -> "File"
      [] value = 5  -> "Common"
      [] value = 6  -> "Tls"
      [] value = 10 -> "LoOs"
      [] value = 11 -> "LoOs"
      [] value = 12 -> "HiOs"
      [] value = 13 -> "LoProc"
      [] value = 14 -> "LoProc"
      [] value = 15 -> "HiProc"
      [] OTHER      -> "None"

\* SymTabEnt::parse reading a 64-bit entry in the field order of a 32-bit
\* one: name, value, size, info, other, section index
SymTabEnt_parse_one_order(self, ent, class, data) ==
    LET name == u32_endian_parse(0, 4, ent, data) IN
    IF ~name.ok THEN name
    ELSE IF class = "Class32" THEN
        LET rs == << u32_as_usize(u32_endian_parse(4, 8, ent, data)),
                     u32_as_usize(u32_endian_parse(8, 12, ent, data)),
                     u8_endian_parse(12, 13, ent, data),
                     u8_endian_parse(13, 14, ent, data),
                     u16_endian_parse(14, 16, ent, data) >>
        IN  IF ~AllOk(rs) THEN FirstErr(rs)
            ELSE Ok([self EXCEPT !.st_name = name.v, !.st_value = rs[1].v,
                                 !.st_size = rs[2].v,
                                 !.st_info = SymType_from(rs[3].v[1]),
                                 !.st_other = rs[4].v, !.st_shndx = rs[5].v])
    ELSE IF class = "Class64" THEN
        LET rs == << u64_endian_parse(4, 12, ent, data),
                     u64_endian_parse(12, 20, ent, data),
                     u8_endian_parse(20, 21, ent, data),
                     u8_endian_parse(21, 22, ent, data),
                     u16_endian_parse(22, 24, ent, data) >>
        IN  IF ~AllOk(rs) THEN FirstErr(rs)
            ELSE Ok([self EXCEPT !.st_name = name.v, !.st_value = rs[1].v,
                                 !.st_size = rs[2].v,
                                 !.st_info = SymType_from(rs[3].v[1]),
                                 !.st_other = rs[4].v, !.st_shndx = rs[5].v])
    ELSE Err("UnsupportedClass")

\* SymTabEnt::parse: self with the fields of the entry starting ent
SymTabEnt_parse(self, ent, class, data) ==
    LET name == u32_endian_parse(0, 4, ent, data) IN
    IF ~name.ok THEN name
    ELSE IF class = "Class32" THEN
        LET rs == << u32_as_usize(u32_endian_parse(4, 8, ent, data)),
                     u32_as_usize(u32_endian_parse(8, 12, ent, data)),
                     u8_endian_parse(12, 13, ent, data),
                     u8_endian_parse(13, 14, ent, data),
                     u16_endian_parse(14, 16, ent, data) >>
        IN  IF ~AllOk(rs) THEN FirstErr(rs)
            ELSE Ok([self EXCEPT !.st_name = name.v, !.st_value = rs[1].v,
                                 !.st_size = rs[2].v,
                                 !.st_info = SymType_from(rs[3].v[1]),
                                 !.st_other = rs[4].v, !.st_shndx = rs[5].v])
    ELSE IF class = "Class64" THEN
        LET rs == << u8_endian_parse(4, 5, ent, data),
                     u8_endian_parse(5, 6, ent, data),
                     u16_endian_parse(6, 8, ent, data),
                     u64_endian_parse(8, 16, ent, data),
                     u64_endian_parse(16, 24, ent, data) >>
        IN  IF ~AllOk(rs) THEN FirstErr(rs)
            ELSE Ok([self EXCEPT !.st_name = name.v,
                                 !.st_info = SymType_from(rs[1].v[1]),
                                 !.st_other = rs[2].v, !.st_shndx = rs[3].v,
                                 !.st_value = rs[4].v, !.st_size = rs[5].v])
    ELSE Err("UnsupportedClass")

\* n * v modulo 2^64 (sum) and whether the product overflowed (carry)
RECURSIVE MulU(_, _)
MulU(n, v) ==
    IF n = 0 THEN [sum |-> U(0), carry |-> FALSE]
    ELSE LET m == MulU(n - 1, v)
             a == AddU(m.sum, v)
         IN  [sum |-> a.sum, carry |-> m.carry \/ a.carry]

\* SymTabIterator::new, with what the iterator has returned so far
SymTabIterator_new(sh, class, data) ==
    [sh      |-> sh,
     symnum  |-> 0,
     class   |-> class,
     data    |-> data,
     ret     |-> "new",
     yielded |-> << >>]

\* SymTabIterator::next taking the entry from the buffer after sh_offset,
\* not from the section's slice
SymTabIterator_next_past_section(it, elf_, checks) ==
    IF ~it.sh.some THEN [it EXCEPT !.ret = "None"]
    ELSE
    LET symtab == it.sh.v
        sec == index_range(elf_, symtab.sh_offset, symtab.sh_size, checks)
        ent_offset == MulU(it.symnum, symtab.sh_entsize)
    IN
    IF sec.panic THEN [it EXCEPT !.ret = "panic"]
    ELSE IF ent_offset.carry /\ checks THEN [it EXCEPT !.ret = "panic"]
    ELSE
    LET rest == SubSeq(elf_, ToNat(symtab.sh_offset) + 1, Len(elf_)) IN
    IF ~(Small(ent_offset.sum) /\ ToNat(ent_offset.sum) <= Len(rest))
    THEN [it EXCEPT !.ret = "None"]
    ELSE
    LET ent == get_from(rest, ToNat(ent_offset.sum)).v
        r == SymTabEnt_parse(SymTabEnt_default, ent, it.class, it.data)
    IN  IF ~r.ok THEN [it EXCEPT !.symnum = it.symnum + 1, !.ret = "None"]
        ELSE [it EXCEPT !.symnum = it.symnum + 1,
                        !.ret = "Some",
                        !.yielded = Append(it.yielded, r.v)]

\* SymTabIterator::next starting over from the first entry once the entry
\* window has left the section
SymTabIterator_next_rewinds(it, elf_, checks) ==
    IF ~it.sh.some THEN [it EXCEPT !.ret = "None"]
    ELSE
    LET symtab == it.sh.v
        sec == index_range(elf_, symtab.sh_offset, symtab.sh_size, checks)
        ent_offset == MulU(it.symnum, symtab.sh_entsize)
    IN
    IF sec.panic THEN [it EXCEPT !.ret = "panic"]
    ELSE IF ent_offset.carry /\ checks THEN [it EXCEPT !.ret = "panic"]
    ELSE IF ~(Small(ent_offset.sum) /\ ToNat(ent_offset.sum) <= Len(sec.v))
    THEN [it EXCEPT !.symnum = 0, !.ret = "None"]
    ELSE
    LET ent == get_from(sec.v, ToNat(ent_offset.sum)).v
        r == SymTabEnt_parse(SymTabEnt_default, ent, it.class, it.data)
    IN  IF ~r.ok THEN [it EXCEPT !.symnum = it.symnum + 1, !.ret = "None"]
        ELSE [it EXCEPT !.symnum = it.symnum + 1,
                        !.ret = "Some",
                        !.yielded = Append(it.yielded, r.v)]

\* SymTabIterator::next
SymTabIterator_next(it, elf_, checks) ==
    IF ~it.sh.some THEN [it EXCEPT !.ret = "None"]
    ELSE
    LET symtab == it.sh.v
        sec == index_range(elf_, symtab.sh_offset, symtab.sh_size, checks)
        ent_offset == MulU(it.symnum, symtab.sh_entsize)
    IN
    IF sec.panic THEN [it EXCEPT !.ret = "panic"]
    ELSE IF ent_offset.carry /\ checks THEN [it EXCEPT !.ret = "panic"]
    ELSE IF ~(Small(ent_offset.sum) /\ ToNat(ent_offset.sum) <= Len(sec.v))
    THEN [it EXCEPT !.ret = "None"]
    ELSE
    LET ent == get_from(sec.v, ToNat(ent_offset.sum)).v
        r == SymTabEnt_parse(SymTabEnt_default, ent, it.class, it.data)
    IN  IF ~r.ok THEN [it EXCEPT !.symnum = it.symnum + 1, !.ret = "None"]
        ELSE [it EXCEPT !.symnum = it.symnum + 1,
                        !.ret = "Some",
                        !.yielded = Append(it.yielded, r.v)]

(***************************************************************************)
(* The iterators on their own: a buffer, one iterator constructed over it, *)
(* and calls of next until it panics.                                      *)
(***************************************************************************)
\* where the tables of the buffers start
TableOff == 8

\* usize::MAX and 2^63
UsizeMax == <<65535, 65535, 65535, 65535>>
UsizeTop == <<0, 0, 0, 32768>>

IterLens ==
    {0, TableOff, TableOff + 20, TableOff + 100}
    \cup {TableOff + k * e : k \in 1 .. MaxCount, e \in {32, 40, 56, 64}}

IterOffsets == {U(0), U(TableOff), U(TableOff + 40), UsizeMax}
EntSizes == {0, 32, 40, 56, 64}

\* the section headers a symbol-table iterator is constructed with
SymSections ==
    { [SectionHeader_default EXCEPT !.sh_type = "ShtSymTab", !.sh_offset = o,
                                     !.sh_size = z, !.sh_entsize = e] :
        o \in {U(TableOff), UsizeMax},
        z \in {U(0), U(16), U(40), U(16 * MaxCount), U(24 * MaxCount),
              UsizeMax},
        e \in {U(0), U(8), U(16), U(24), UsizeTop} }

\* calls of next on a symbol-table iterator that the model follows
MaxSym == 4

InitIter ==
    /\ \E n \in IterLens : elf = Pattern(1, n)
    /\ overflow_checks \in BOOLEAN
    /\ probe = Idle /\ dec = Idle /\ fh = Idle /\ eh = Idle
    /\ \/ /\ \E o \in IterOffsets, e \in EntSizes, n \in 0 .. MaxCount,
                c \in ElfClassSet, d \in ElfDataSet :
                  pit = ProgramIterator_new(o, e, n, c, d)
          /\ sit = Idle /\ yit = Idle
       \/ /\ \E o \in IterOffsets, e \in EntSizes, n \in 0 .. MaxCount,
                c \in ElfClassSet, d \in ElfDataSet :
                  sit = SectionIterator_new(o, e, n, c, d)
          /\ pit = Idle /\ yit = Idle
       \/ /\ \E sh \in {None} \cup {Some(x) : x \in SymSections},
                c \in ElfClassSet, d \in ElfDataSet :
                  yit = SymTabIterator_new(sh, c, d)
          /\ pit = Idle /\ sit = Idle

ProgramNext ==
    /\ pit # Idle /\ pit.ret # "panic"
    /\ pit' = ProgramIterator_next(pit, elf, overflow_checks)
    /\ UNCHANGED <<elf, probe, dec, fh, eh, sit, yit, overflow_checks>>

SectionNext ==
    /\ sit # Idle /\ sit.ret # "panic"
    /\ sit' = SectionIterator_next(sit, elf, overflow_checks)
    /\ UNCHANGED <<elf, probe, dec, fh, eh, pit, yit, overflow_checks>>

SymTabNext ==
    /\ yit # Idle /\ yit.ret # "panic"
    /\ yit.symnum < MaxSym
    /\ yit' = SymTabIterator_next(yit, elf, overflow_checks)
    /\ UNCHANGED <<elf, probe, dec, fh, eh, pit, sit, overflow_checks>>

NextIter == ProgramNext \/ SectionNext \/ SymTabNext

SpecIter == InitIter /\ [][NextIter]_vars

(***************************************************************************)
(* Header images: the buffers the header parsers are run on.  An image is  *)
(* the ELF file header of the given class byte, byte-order byte and OS-ABI *)
(* byte, every multi-byte field holding a fixed logical value written in   *)
(* the byte order enc, followed by padding up to n bytes.                  *)
(***************************************************************************)
\* the bytes of an integer given in limbs, least significant byte first
to_le_bytes(v) ==
    [k \in 1 .. 2 * Len(v) |->
        IF k % 2 = 1 THEN v[(k + 1) \div 2] % 256 ELSE v[k \div 2] \div 256]

Encode(v, enc) == IF enc = "be" THEN Reverse(to_le_bytes(v)) ELSE to_le_bytes(v)

\* the logical values written into an image
ImgEntry(wide) == IF wide THEN <<1800, 1286, 772, 258>> ELSE <<772, 258>>
ImgPhoff(wide) == IF wide THEN <<64, 0, 0, 0>> ELSE <<52, 0>>
ImgShoff(wide) == IF wide THEN <<4386, 51, 0, 0>> ELSE <<4386, 51>>
ImgFlags == <<41378, 41892>>
ImgPhnum == <<513>>
ImgShnum == <<3>>
ImgShstrndx == <<2>>

HeaderFields(cb, db, enc, abi, ty, mach) ==
    LET wide == cb # 1 IN
    ElfMagic \o <<cb, db, 1, abi, 0>> \o <<0, 0, 0, 0, 0, 0, 0>>
      \o Encode(<<ty>>, enc) \o Encode(<<mach>>, enc) \o Encode(<<1, 0>>, enc)
      \o Encode(ImgEntry(wide), enc) \o Encode(ImgPhoff(wide), enc)
      \o Encode(ImgShoff(wide), enc) \o Encode(ImgFlags, enc)
      \o Encode(<<IF wide THEN 64 ELSE 52>>, enc)
      \o Encode(<<IF wide THEN 56 ELSE 32>>, enc)
      \o Encode(ImgPhnum, enc)
      \o Encode(<<IF wide THEN 64 ELSE 40>>, enc)
      \o Encode(ImgShnum, enc) \o Encode(ImgShstrndx, enc)

\* the image cut or padded to n bytes
HeaderImage(cb, db, enc, abi, ty, mach, n) ==
    LET h == HeaderFields(cb, db, enc, abi, ty, mach) IN
    [i \in 1 .. n |-> IF i <= Len(h) THEN h[i] ELSE (200 + i) % 256]

\* byte at offset p replaced by b
Mutate(bytes, p, b) == [i \in 1 .. Len(bytes) |-> IF i = p + 1 THEN b ELSE bytes[i]]

HdrLen == 64 + HdrSlack
ClassBytes == {0, 1, 2, 3}
DataBytes == {0, 1, 2}
AbiBytes == {0, 3, 5, 255}
TypeValues == {0, 2, 5, 254, 255, 65024, 65281}
MachineValues == {62, 243, 4660}
MutBytes == {0, 1, 2, 255}

HeaderBuffers ==
    \* whole images, every field varied
    { HeaderImage(cb, db, enc, abi, ty, mach, HdrLen) :
        cb \in ClassBytes, db \in DataBytes, enc \in {"le", "be"},
        abi \in AbiBytes, ty \in TypeValues, mach \in MachineValues }
    \cup
    \* images cut at every length
    { HeaderImage(cb, db, enc, 0, 2, 62, n) :
        cb \in ClassBytes, db \in DataBytes, enc \in {"le", "be"},
        n \in 0 .. HdrLen }
    \cup
    \* little-endian images with one byte of the fixed prefix replaced
    { Mutate(HeaderImage(cb, db, "le", 0, 2, 62, HdrLen), p, b) :
        cb \in ClassBytes, db \in DataBytes, p \in 0 .. 23, b \in MutBytes }

InitHeader ==
    /\ elf \in HeaderBuffers
    /\ probe = Idle /\ dec = Idle
    /\ fh = Idle /\ eh = Idle
    /\ pit = Idle /\ sit = Idle /\ yit = Idle
    /\ overflow_checks = FALSE

FileHeaderParse ==
    /\ fh = Idle
    /\ fh' = FileHeader_parse(elf)
    /\ UNCHANGED <<elf, probe, dec, eh, pit, sit, yit, overflow_checks>>

ElfParse ==
    /\ eh = Idle
    /\ eh' = Elf_parse(elf)
    /\ UNCHANGED <<elf, probe, dec, fh, pit, sit, yit, overflow_checks>>

NextHeader == FileHeaderParse \/ ElfParse

SpecHeader == InitHeader /\ [][NextHeader]_vars

(***************************************************************************)
(* The primitive decoder on its own: any buffer, any range, any byte order.*)
(***************************************************************************)
Seeds == {0, 129, 255}

InitDecode ==
    /\ \E n \in 0 .. MaxBuf, k \in Seeds : elf = Pattern(k, n)
    /\ \E s \in 0 .. MaxBuf + 1, e \in 0 .. MaxBuf + 1, d \in ElfDataSet :
          probe = [start |-> s, end |-> e, e_data |-> d]
    /\ dec = Idle
    /\ fh = Idle /\ eh = Idle
    /\ pit = Idle /\ sit = Idle /\ yit = Idle
    /\ overflow_checks = FALSE

Decode(w) ==
    /\ dec = Idle
    /\ dec' = [w |-> w,
               res |-> endian_parse(w, probe.start, probe.end, elf, probe.e_data)]
    /\ UNCHANGED <<elf, probe, fh, eh, pit, sit, yit, overflow_checks>>

DecodeUsize == Decode(8)
DecodeU32 == Decode(4)
DecodeU16 == Decode(2)

NextDecode == DecodeUsize \/ DecodeU32 \/ DecodeU16

SpecDecode == InitDecode /\ [][NextDecode]_vars

(***************************************************************************)
(* Properties of the file-header parsers, stated on the bytes of the       *)
(* buffer.                                                                 *)
(***************************************************************************)
BadElf == Err("BadElf")
OffsetCalculationFailure == Err("OffsetCalculationFailure")

\* the buffer starts with 0x7F 'E' 'L' 'F'
HasMagic == Len(elf) >= 4 /\ elf[1] = 127 /\ elf[2] = 69 /\ elf[3] = 76 /\ elf[4] = 70

\* byte 6 is 1
Version6 == Len(elf) >= 7 /\ elf[7] = 1

\* bytes 20-23 are 01 00 00 00
Version20 ==
    Len(elf) >= 24 /\ elf[21] = 1 /\ elf[22] = 0 /\ elf[23] = 0 /\ elf[24] = 0

\* where the last header field ends, by the class byte
HeaderEnd == IF Len(elf) >= 5 /\ elf[5] = 1 THEN 52 ELSE 64

\* C3: a buffer shorter than 4 bytes, or not starting with the magic, makes
\* header parse (FileHeader::parse and Elf::parse alike) fail with BadElf,
\* whatever the other bytes are.
C3_BadMagicIsBadElf ==
    ~HasMagic => /\ (fh # Idle => fh = BadElf)
                 /\ (eh # Idle => eh = BadElf)

\* a full-length buffer that differs from a valid header only in its magic
\* has been parsed
C3_Witness ==
    /\ fh = BadElf /\ eh = BadElf
    /\ Len(elf) >= 64 /\ ~HasMagic /\ Version6 /\ Version20
    /\ elf[1] = 127 /\ elf[2] = 69 /\ elf[3] = 76

\* C4: with the magic right, byte 6 other than 1 gives BadElf, bytes 20-23
\* other than 01 00 00 00 give BadElf, and a successful parse implies that
\* both version checks held.
C4_BothVersionChecksGate ==
    (fh # Idle /\ HasMagic) =>
        /\ (~Version6 => fh = BadElf)
        /\ (~Version20 => fh = BadElf)
        /\ (fh.ok => Version6 /\ Version20)

\* the second check alone rejected a buffer long enough for every field
C4_Witness ==
    /\ fh = BadElf
    /\ HasMagic /\ Version6 /\ ~Version20 /\ Len(elf) >= 64

\* C6: the parsed class is a function of byte 4 alone (1: 32-bit, 2: 64-bit,
\* anything else: Unknown), and an Unknown class does not make the parse of
\* an otherwise acceptable header of 64 bytes fail.
C6_ClassFromByte4 ==
    /\ fh.ok =>
        /\ (elf[5] = 1 => fh.v.e_class = "Class32")
        /\ (elf[5] = 2 => fh.v.e_class = "Class64")
        /\ (elf[5] \notin {1, 2} => fh.v.e_class = "None")
    /\ (/\ fh # Idle /\ HasMagic /\ Version6 /\ Version20
        /\ Len(elf) >= 64 /\ elf[5] \notin {1, 2}) => fh.ok

\* a header whose class byte is neither 1 nor 2 has been accepted
C6_Witness ==
    fh.ok /\ elf[5] \notin {1, 2} /\ fh.v.e_class = "None"

\* the integer held by the w bytes at offset s, in the byte order of byte 5
FieldAt(s, w) ==
    LET arr == SubSeq(elf, s + 1, s + w) IN
    as_usize(IF elf[6] = 2 THEN from_be_bytes(arr) ELSE from_le_bytes(arr))

\* the layout of the fields after the 24-byte prefix, for a parse result r:
\* three address fields of aw bytes, flags, six 2-byte fields
LayoutOf(r, aw) ==
    LET p1 == 24 + 3 * aw IN
    /\ r.ok
    /\ r.v.e_entry = FieldAt(24, aw)
    /\ r.v.e_phoff = FieldAt(24 + aw, aw)
    /\ r.v.e_shoff = FieldAt(24 + 2 * aw, aw)
    /\ as_usize(r.v.e_flags) = FieldAt(p1, 4)
    /\ as_usize(r.v.e_ehsize) = FieldAt(p1 + 4, 2)
    /\ as_usize(r.v.e_phentsize) = FieldAt(p1 + 6, 2)
    /\ as_usize(r.v.e_phnum) = FieldAt(p1 + 8, 2)
    /\ as_usize(r.v.e_shnum) = FieldAt(p1 + 12, 2)
    /\ as_usize(r.v.e_shstrndx) = FieldAt(p1 + 14, 2)
    /\ p1 + 16 = HeaderEnd

\* a buffer that passes the magic and both version checks and holds every
\* header field of its class
Acceptable == HasMagic /\ Version6 /\ Version20 /\ Len(elf) >= HeaderEnd

\* FileHeader::parse follows the layout of C9 (the part of C9 the code meets)
FileHeaderLayout ==
    (fh # Idle /\ Acceptable) =>
        /\ LayoutOf(fh, IF elf[5] = 1 THEN 4 ELSE 8)
        /\ as_usize(fh.v.e_shentsize) = FieldAt(HeaderEnd - 6, 2)

\* C9: after the 24-byte prefix both header parsers decode entry point,
\* program-header offset and section-header offset as 8-byte fields for class
\* 64-bit or Unknown and as 4-byte fields for class 32-bit, then flags (4
\* bytes) and six 2-byte fields, the last ending at offset 64 or 52.
C9_HeaderLayout ==
    /\ FileHeaderLayout
    /\ (eh # Idle /\ Acceptable) =>
          /\ LayoutOf(eh, IF elf[5] = 1 THEN 4 ELSE 8)
          /\ as_usize(eh.v.e_shentrysize) = FieldAt(HeaderEnd - 6, 2)

\* the logical object type and machine of a 16-bit value
ElfTypeOfValue(v) ==
    CASE v = 0 -> "None"
      [] v = 1 -> "Relocatable"
      [] v = 2 -> "Executable"
      [] v = 3 -> "SharedObject"
      [] v = 4 -> "CoreFile"
      [] v \div 256 = 254 -> "OsSpecific"
      [] v \div 256 = 255 -> "CpuSpecific"
      [] OTHER -> "None"

\* C5: with byte 5 = 2 every multi-byte field of the header is decoded
\* big-endian, the version at bytes 20-23 and the object type at bytes 16-17
\* included: a header whose fields are written big-endian is accepted and
\* decodes to the values its little-endian writing decodes to.
C5_BigEndianEverywhere ==
    (/\ fh # Idle /\ HasMagic /\ Version6 /\ Len(elf) >= 64 /\ elf[6] = 2
     /\ from_be_bytes(SubSeq(elf, 21, 24)) = <<1, 0>>) =>
        /\ fh.ok
        /\ fh.v.e_type = ElfTypeOfValue(from_be_bytes(SubSeq(elf, 17, 18))[1])
        /\ fh.v.e_entry = FieldAt(24, IF elf[5] = 1 THEN 4 ELSE 8)

(***************************************************************************)
(* Properties of the primitive decoder.                                    *)
(***************************************************************************)
\* the requested range lies inside the buffer
ProbeInside == probe.start <= probe.end /\ probe.end <= Len(elf)

\* the bytes of the requested range
ProbeBytes == SubSeq(elf, probe.start + 1, probe.end)

\* C7: the primitive decoder fails, with OffsetCalculationFailure, exactly
\* when the range is not inside the buffer (an inverted range included) or
\* its length differs from the width of the integer; otherwise it returns a
\* value.
C7_DecoderFailsExactly ==
    dec # Idle =>
        /\ (~ProbeInside \/ probe.end - probe.start # dec.w)
              => dec.res = OffsetCalculationFailure
        /\ (ProbeInside /\ probe.end - probe.start = dec.w) => dec.res.ok

\* a range inside the buffer but longer than the integer has been refused
C7_Witness ==
    /\ dec # Idle /\ ProbeInside
    /\ probe.end - probe.start > dec.w
    /\ dec.res = OffsetCalculationFailure

\* C8: byte order Unknown decodes as LittleEndian does, BigEndian decodes as
\* LittleEndian does on the reversed bytes, and the result is that of
\* decoding the bytes of the range alone.
C8_ByteOrders ==
    dec # Idle =>
        /\ probe.e_data = "None" =>
              dec.res = endian_parse(dec.w, probe.start, probe.end, elf, "ElfData2Lsb")
        /\ (probe.e_data = "ElfData2Msb" /\ ProbeInside) =>
              dec.res = endian_parse(dec.w, 0, probe.end - probe.start,
                                     Reverse(ProbeBytes), "ElfData2Lsb")
        /\ (probe.e_data = "ElfData2Lsb" /\ dec.res.ok) =>
              dec.res.v = from_le_bytes(ProbeBytes)
        /\ ProbeInside =>
              dec.res = endian_parse(dec.w, 0, probe.end - probe.start,
                                     ProbeBytes, probe.e_data)

\* eight bytes have been decoded big-endian to a value other than their
\* little-endian one
C8_Witness ==
    /\ dec # Idle /\ dec.w = 8 /\ probe.e_data = "ElfData2Msb"
    /\ dec.res.ok /\ dec.res.v # from_le_bytes(ProbeBytes)

(***************************************************************************)
(* Properties of the iterators.                                            *)
(***************************************************************************)
\* C1: no call of next, on any of the three iterators, panics, whatever the
\* buffer and whatever the offsets and sizes the iterator was built with.
C1_NeverPanics ==
    /\ (pit # Idle => pit.ret # "panic")
    /\ (sit # Idle => sit.ret # "panic")
    /\ (yit # Idle => yit.ret # "panic")

\* the size of a program-header entry of the class
PhEntSize(class) ==
    CASE class = "Class32" -> 32 [] class = "Class64" -> 56 [] OTHER -> 0

\* the program iterator was built over a table that starts inside the buffer
\* and whose entries are at least as long as the class's layout
PhTableStarts ==
    /\ Small(pit.made.offset) /\ ToNat(pit.made.offset) <= Len(elf)
    /\ pit.phentsize >= PhEntSize(pit.class)

\* the whole table lies inside the buffer
PhTableInside ==
    /\ PhTableStarts
    /\ ToNat(pit.made.offset) + pit.made.count * pit.phentsize <= Len(elf)

\* the buffer holds the first entry of the table but not the whole table
PhTruncatedMidTable ==
    /\ PhTableStarts
    /\ pit.made.count >= 2
    /\ ToNat(pit.made.offset) + pit.phentsize <= Len(elf)
    /\ ToNat(pit.made.offset) + pit.made.count * pit.phentsize > Len(elf)

\* the last call of next ended the iteration
PhEnded == pit.ret \in {"None", "panic"}

\* the part of C2 the code meets: a table of N well-formed entries inside the
\* buffer yields exactly N items, and then no more
PhFullTableYieldsAll ==
    (pit # Idle /\ PhTableInside) =>
        /\ pit.ret # "panic"
        /\ Len(pit.yielded) + pit.phnum = pit.made.count
        /\ (pit.ret = "None" => Len(pit.yielded) = pit.made.count)

\* C2: program-header iteration built with count N yields exactly N items
\* when the N entries lie inside the buffer and are well-formed, and ends
\* with fewer than N items, without failing, when the buffer stops in the
\* middle of the table.
C2_CountOrTruncation ==
    /\ PhFullTableYieldsAll
    /\ (pit # Idle /\ PhTruncatedMidTable /\ PhEnded) =>
          /\ pit.ret = "None"
          /\ Len(pit.yielded) < pit.made.count

\* C10: the ordinals of the section headers one section iterator has
\* yielded are 0, 1, 2, ... in the order yielded.
C10_OrdinalsInOrder ==
    sit # Idle =>
        \A i \in 1 .. Len(sit.yielded) : sit.yielded[i].sh_ndx = i - 1

\* a section iterator has yielded three headers from a buffer whose bytes at
\* the link and info fields are not the ordinals
C10_Witness ==
    /\ sit # Idle /\ Len(sit.yielded) >= 3
    /\ sit.yielded[3].sh_ndx = 2
    /\ sit.yielded[3].sh_link # <<2, 0>>

(***************************************************************************)
(* Properties of the symbol-table iterator.                                *)
(***************************************************************************)
\* the offset, inside the section's slice, of the entry the next call of
\* next decodes
SymEntOffset(it) == MulU(it.symnum, it.sh.v.sh_entsize).sum

\* C11: symbol-table iteration ends after finitely many calls of next for
\* every sh_entsize, 0 included, because the entry window moves on until it
\* leaves the section's slice: every call that yields an entry leaves the
\* window at a greater offset than it found it.
C11_SymbolWindowAdvances ==
    [][(yit # Idle /\ yit'.ret = "Some") =>
          ~LeU(SymEntOffset(yit'), SymEntOffset(yit))]_vars

(***************************************************************************)
(* Name resolution (spec 4.6): the name at an offset of a string table is  *)
(* the text from the offset up to the next NUL byte.                       *)
(***************************************************************************)
\* the index (from 1) of the first NUL byte of table at or after index i,
\* or 0 when there is none
RECURSIVE first_nul(_, _)
first_nul(table, i) ==
    IF i > Len(table) THEN 0
    ELSE IF table[i] = 0 THEN i
    ELSE first_nul(table, i + 1)

\* whether the bytes are valid text: an ASCII byte always is, 0xFF never is
\* part of valid UTF-8 (the string tables of the model hold no other bytes)
is_text(s) == \A i \in 1 .. Len(s) : s[i] < 128

\* the name at offset, its terminator sought from the start of the table
name_at_first_terminator(table, offset) ==
    IF offset >= Len(table) THEN None
    ELSE LET z == first_nul(table, 1) IN
         IF z = 0 THEN None
         ELSE LET s == SubSeq(table, offset + 1, z - 1) IN
              IF is_text(s) THEN Some(s) ELSE None

\* the name at offset of the string table, or None
name_at(table, offset) ==
    IF offset >= Len(table) THEN None
    ELSE LET z == first_nul(table, offset + 1) IN
         IF z = 0 THEN None
         ELSE LET s == SubSeq(table, offset + 1, z - 1) IN
              IF is_text(s) THEN Some(s) ELSE None

(***************************************************************************)
(* Single entries: one symbol, program-header or section-header entry,     *)
(* written from logical field values in the layout of a class and the byte *)
(* order of the header, and one call of its parse function; and one string *)
(* table with one name resolved in it.                                     *)
(***************************************************************************)
\* the bytes of the limbs v in the byte order e_data
EncodeAs(v, e_data) ==
    IF e_data = "ElfData2Msb" THEN Reverse(to_le_bytes(v)) ELSE to_le_bytes(v)

\* the field values of the symbols written: 4-byte name, value and size,
\* the info and other bytes, the 2-byte section index
SymValues ==
    [st_name  : {<<1, 0>>, <<513, 1027>>},
     st_value : {<<0, 0>>, <<4660, 22136>>},
     st_size  : {<<24, 0>>, <<65535, 65535>>},
     st_info  : {0, 2, 11, 18},
     st_other : {0, 3},
     st_shndx : {<<1>>, <<65521>>}]

\* a symbol entry of the class holding the values L
SymImage(class, L, e_data) ==
    LET e(v) == EncodeAs(v, e_data) IN
    IF class = "Class32"
    THEN e(L.st_name) \o e(L.st_value) \o e(L.st_size)
         \o <<L.st_info, L.st_other>> \o e(L.st_shndx)
    ELSE e(L.st_name) \o <<L.st_info, L.st_other>> \o e(L.st_shndx)
         \o e(as_usize(L.st_value)) \o e(as_usize(L.st_size))

\* the segment type values written: the generic types, the GNU types and
\* their neighbours, and the ends of the reserved ranges
PtValues ==
    {<<0, 0>>, <<1, 0>>, <<6, 0>>, <<7, 0>>, <<8, 0>>,
     <<58704, 25716>>, <<58705, 25716>>, <<58706, 25716>>, <<58707, 25716>>,
     <<58708, 25716>>, <<58703, 25716>>,
     <<65535, 24575>>, <<0, 24576>>, <<65535, 28671>>,
     <<0, 28672>>, <<65535, 32767>>, <<0, 32768>>}

\* the field values of the program headers written, all of 4 bytes
PhValues ==
    [p_type   : PtValues,
     p_flags  : {<<0, 0>>, <<4, 0>>, <<5, 0>>, <<6, 0>>, <<7, 1>>},
     p_offset : {<<64, 0>>, <<4660, 22136>>},
     p_vaddr  : {<<0, 64>>},
     p_paddr  : {<<0, 128>>},
     p_filesz : {<<291, 0>>},
     p_memsz  : {<<291, 1>>, <<65535, 65535>>},
     p_align  : {<<4096, 0>>}]

\* a program-header entry of the class holding the values L
PhImage(class, L, e_data) ==
    LET e(v) == EncodeAs(v, e_data)
        w(v) == EncodeAs(as_usize(v), e_data)
    IN
    IF class = "Class32"
    THEN e(L.p_type) \o e(L.p_offset) \o e(L.p_vaddr) \o e(L.p_paddr)
         \o e(L.p_filesz) \o e(L.p_memsz) \o e(L.p_flags) \o e(L.p_align)
    ELSE e(L.p_type) \o e(L.p_flags) \o w(L.p_offset) \o w(L.p_vaddr)
         \o w(L.p_paddr) \o w(L.p_filesz) \o w(L.p_memsz) \o w(L.p_align)

\* the field values of the section headers written, all of 4 bytes
ShValues ==
    [sh_name      : {<<27, 0>>},
     sh_type      : {<<2, 0>>, <<3, 0>>, <<65526, 1791>>},
     sh_flags     : {<<6, 0>>},
     sh_addr      : {<<4096, 64>>},
     sh_offset    : {<<4096, 0>>, <<4660, 22136>>},
     sh_size      : {<<384, 0>>},
     sh_link      : {<<5, 0>>, <<65535, 65535>>},
     sh_info      : {<<7, 0>>},
     sh_addralign : {<<8, 0>>},
     sh_entsize   : {<<24, 0>>}]

\* a section-header entry of the class holding the values L
ShImage(class, L, e_data) ==
    LET e(v) == EncodeAs(v, e_data)
        w(v) == EncodeAs(as_usize(v), e_data)
    IN
    IF class = "Class32"
    THEN e(L.sh_name) \o e(L.sh_type) \o e(L.sh_flags) \o e(L.sh_addr)
         \o e(L.sh_offset) \o e(L.sh_size) \o e(L.sh_link) \o e(L.sh_info)
         \o e(L.sh_addralign) \o e(L.sh_entsize)
    ELSE e(L.sh_name) \o e(L.sh_type) \o w(L.sh_flags) \o w(L.sh_addr)
         \o w(L.sh_offset) \o w(L.sh_size) \o e(L.sh_link) \o e(L.sh_info)
         \o w(L.sh_addralign) \o w(L.sh_entsize)

\* the longest string table, and the bytes of the string tables: NUL, two
\* letters and a byte that is not text
MaxStr == 4
StrBytes == {0, 65, 122, 255}
StrTabs == UNION {[1 .. n -> StrBytes] : n \in 0 .. MaxStr}

InitEntry ==
    /\ dec = Idle /\ fh = Idle /\ eh = Idle
    /\ pit = Idle /\ sit = Idle /\ yit = Idle
    /\ overflow_checks = FALSE
    /\ \/ \E L \in SymValues, c \in ElfClassSet, d \in ElfDataSet :
            /\ elf = SymImage(c, L, d)
            /\ probe = [kind |-> "symbol", class |-> c, e_data |-> d,
                        logical |-> L]
       \/ \E L \in PhValues, c \in ElfClassSet, d \in ElfDataSet :
            /\ elf = PhImage(c, L, d)
            /\ probe = [kind |-> "program", class |-> c, e_data |-> d,
                        logical |-> L]
       \/ \E L \in ShValues, c \in ElfClassSet, d \in ElfDataSet :
            \E n \in 0 .. Len(ShImage(c, L, d)) :
                /\ elf = SubSeq(ShImage(c, L, d), 1, n)
                /\ probe = [kind |-> "section", class |-> c, e_data |-> d,
                            logical |-> L]
       \/ \E t \in StrTabs : \E o \in 0 .. Len(t) + 1 :
            /\ elf = t
            /\ probe = [kind |-> "name", offset |-> o]

\* SymTabEnt::default().parse(elf, class, data)
SymbolParse ==
    /\ probe.kind = "symbol" /\ dec = Idle
    /\ dec' = SymTabEnt_parse(SymTabEnt_default, elf, probe.class, probe.e_data)
    /\ UNCHANGED <<elf, probe, fh, eh, pit, sit, yit, overflow_checks>>

\* ProgramHeader::new().parse(elf, class, data)
ProgramParse ==
    /\ probe.kind = "program" /\ dec = Idle
    /\ dec' = ProgramHeader_parse(ProgramHeader_new, elf, probe.class,
                                  probe.e_data)
    /\ UNCHANGED <<elf, probe, fh, eh, pit, sit, yit, overflow_checks>>

\* SectionHeader::default().parse(elf, class, data)
SectionParse ==
    /\ probe.kind = "section" /\ dec = Idle
    /\ dec' = SectionHeader_parse(SectionHeader_default, elf, probe.class,
                                  probe.e_data)
    /\ UNCHANGED <<elf, probe, fh, eh, pit, sit, yit, overflow_checks>>

\* the name at an offset of a string table
ResolveName ==
    /\ probe.kind = "name" /\ dec = Idle
    /\ dec' = name_at(elf, probe.offset)
    /\ UNCHANGED <<elf, probe, fh, eh, pit, sit, yit, overflow_checks>>

NextEntry == SymbolParse \/ ProgramParse \/ SectionParse \/ ResolveName

SpecEntry == InitEntry /\ [][NextEntry]_vars

(***************************************************************************)
(* Properties of the entry parsers.                                        *)
(***************************************************************************)
\* the symbol a parse of the written entry is to give: the values written,
\* value and size widened to 64 bits, whatever the class
SymbolWritten ==
    LET L == probe.logical IN
    [st_name |-> L.st_name, st_value |-> as_usize(L.st_value),
     st_size |-> as_usize(L.st_size), st_info |-> SymType_from(L.st_info),
     st_other |-> <<L.st_other>>, st_shndx |-> L.st_shndx]

\* C12: a symbol entry in the 32-bit layout and one in the 64-bit layout
\* that hold the same values (fitting 32 bits) decode, each under its
\* class, to the same symbol: the one with the values written.
C12_SymbolLayoutsAgree ==
    (probe.kind = "symbol" /\ dec # Idle
     /\ probe.class \in {"Class32", "Class64"}) =>
        /\ dec.ok
        /\ dec.v = SymbolWritten

\* a 64-bit entry, written big-endian, has been decoded to a symbol whose
\* info byte names a type
C12_Witness ==
    /\ probe.kind = "symbol" /\ probe.class = "Class64"
    /\ probe.e_data = "ElfData2Msb"
    /\ dec # Idle /\ dec.ok
    /\ dec.v.st_info = "Func" /\ dec.v.st_value = <<4660, 22136, 0, 0>>

\* the program header a parse of the written entry is to give: the values
\* written, widened to usize, the permissions (read, write, execute) of the
\* bits 4, 2 and 1 of the flags and the type of the four type bytes,
\* whatever the class
ProgramWritten ==
    LET L == probe.logical
        f == L.p_flags[1]
    IN
    [p_type |-> ptype_of(EncodeAs(L.p_type, probe.e_data)),
     p_flags |-> << (f \div 4) % 2 = 1, (f \div 2) % 2 = 1, f % 2 = 1 >>,
     p_offset |-> as_usize(L.p_offset), p_vaddr |-> as_usize(L.p_vaddr),
     p_paddr |-> as_usize(L.p_paddr), p_filesz |-> as_usize(L.p_filesz),
     p_memsz |-> as_usize(L.p_memsz), p_align |-> as_usize(L.p_align)]

\* C13: a program-header entry in the 32-bit layout and one in the 64-bit
\* layout that hold the same values (fitting 32 bits) decode, each under
\* its class, to the same program header, permissions included: the one
\* with the values written.
C13_ProgramLayoutsAgree ==
    (probe.kind = "program" /\ dec # Idle
     /\ probe.class \in {"Class32", "Class64"}) =>
        /\ dec.ok
        /\ dec.v = ProgramWritten

\* a 64-bit entry with flags 5 has been decoded to a readable, executable,
\* not writable segment whose offset, written after the flags, is the one
\* written
C13_Witness ==
    /\ probe.kind = "program" /\ probe.class = "Class64"
    /\ probe.logical.p_flags = <<5, 0>>
    /\ dec # Idle /\ dec.ok
    /\ dec.v.p_flags = <<TRUE, FALSE, TRUE>>
    /\ dec.v.p_offset = <<4660, 22136, 0, 0>>
    /\ dec.v.p_type = "PtGnuStack"

(***************************************************************************)
(* Properties of the steps of the program and section iterators.           *)
(***************************************************************************)
\* the size of a section-header entry of the class (with no class only the
\* 4-byte name is required)
ShEntSize(class) ==
    CASE class = "Class32" -> 40 [] class = "Class64" -> 64 [] OTHER -> 4

\* the entry the next call decodes lies inside the buffer but is shorter
\* than the layout of the class, so that its parse fails
PhEntryShort ==
    /\ pit.phnum > 0
    /\ Small(pit.offset) /\ ToNat(pit.offset) + pit.phentsize <= Len(elf)
    /\ pit.phentsize < PhEntSize(pit.class)

ShEntryShort ==
    /\ sit.shnum > 0
    /\ Small(sit.offset) /\ ToNat(sit.offset) + sit.shentsize <= Len(elf)
    /\ sit.shentsize < ShEntSize(sit.class)

\* one call of next on the program iterator
ProgramStep ==
    /\ (pit'.ret = "Some" =>
            /\ pit'.phnum = pit.phnum - 1
            /\ Len(pit'.yielded) = Len(pit.yielded) + 1)
    /\ (pit'.ret # "Some" => pit'.yielded = pit.yielded)
    /\ (pit.phnum = 0 => pit'.ret = "None")
    /\ (PhEntryShort => pit'.ret = "None")
    /\ (pit.ret = "None" => pit'.ret = "None")

\* one call of next on the section iterator
SectionStep ==
    /\ (sit'.ret = "Some" =>
            /\ sit'.shnum = sit.shnum - 1
            /\ Len(sit'.yielded) = Len(sit.yielded) + 1)
    /\ (sit'.ret # "Some" => sit'.yielded = sit.yielded)
    /\ (sit.shnum = 0 => sit'.ret = "None")
    /\ (ShEntryShort => sit'.ret = "None")
    /\ (sit.ret = "None" => sit'.ret = "None")

\* C14: in the program and section iterators every call of next that
\* yields an item takes one off the remaining count; a call made with the
\* count at zero, or on an entry whose parse fails, returns end-of-sequence
\* (never an error, never an item), and after end-of-sequence no call
\* yields an item.
C14_CountedSteps ==
    [][/\ (pit # Idle => ProgramStep)
       /\ (sit # Idle => SectionStep)]_vars

\* an entry too short for its class has ended a program iteration whose
\* count had not run out
C14_Witness ==
    /\ pit # Idle /\ pit.ret = "None" /\ PhEntryShort
    /\ pit.made.count >= 2 /\ pit.phentsize > 0

(***************************************************************************)
(* Properties of the identification bytes of the header.                   *)
(***************************************************************************)
\* the OS-ABI bytes and the machine byte pairs the tables of the parser name
KnownAbi == {0, 1, 2, 3, 6, 8, 9, 10, 11, 12, 64, 97, 255}
KnownMachine == {<<3, 0>>, <<62, 0>>, <<40, 0>>, <<243, 0>>, <<247, 0>>}

\* bytes 16-17 are none of the object types 0..4 and neither byte is 0xFE
\* or 0xFF
UnknownType ==
    /\ ~(elf[17] \in 0 .. 4 /\ elf[18] = 0)
    /\ elf[17] \notin {254, 255} /\ elf[18] \notin {254, 255}

\* C15: no value of the OS-ABI byte (7), of the object-type bytes (16-17)
\* or of the machine bytes (18-19) makes header parse fail: a buffer with
\* the magic, both versions and all its fields is parsed whatever these
\* bytes are, an OS-ABI byte outside the table as System V, machine bytes
\* outside the table as UnDefined and an unrecognized object type as None.
C15_IdentificationNeverFails ==
    (fh # Idle /\ Acceptable) =>
        /\ fh.ok
        /\ (elf[8] \notin KnownAbi => fh.v.e_abi = "Sysv")
        /\ (<<elf[19], elf[20]>> \notin KnownMachine
               => fh.v.e_machine = "UnDefined")
        /\ (UnknownType => fh.v.e_type = "None")

\* a header with OS-ABI byte 5, object type 5 and machine 0x1234 has been
\* parsed
C15_Witness ==
    /\ fh # Idle /\ fh.ok /\ Acceptable
    /\ elf[8] = 5 /\ elf[17] = 5 /\ elf[18] = 0
    /\ elf[19] = 52 /\ elf[20] = 18
    /\ fh.v.e_abi = "Sysv" /\ fh.v.e_machine = "UnDefined"

\* C16: the object type is OS-specific exactly when the high byte of the
\* 16-bit type value is 0xFE and processor-specific exactly when it is
\* 0xFF; the values 0..4 are None, Relocatable, Executable, SharedObject
\* and CoreFile, and every other value is None.  Stated for the headers
\* whose byte-order byte is not big-endian, where the value of bytes 16-17
\* is byte 16 + 256 * byte 17.
C16_TypeByHighByte ==
    (fh # Idle /\ fh.ok /\ elf[6] # 2) =>
        fh.v.e_type = ElfTypeOfValue(elf[17] + 256 * elf[18])

(***************************************************************************)
(* Properties of name resolution.                                          *)
(***************************************************************************)
\* the indices (from 1) of the NUL bytes at or after the offset resolved
NulsFromOffset == {i \in (probe.offset + 1) .. Len(elf) : elf[i] = 0}

\* the bytes from the offset up to the first of these NUL bytes
NameBytes ==
    LET z == CHOOSE i \in NulsFromOffset : \A j \in NulsFromOffset : i <= j
    IN  SubSeq(elf, probe.offset + 1, z - 1)

\* C17: the name at offset O of a string table is the text from O up to,
\* and excluding, the first NUL byte at or after O; it is absent, and
\* nothing else happens, when O is out of the table's bounds or no NUL byte
\* follows O before the table's end.
C17_NameUpToNul ==
    (probe.kind = "name" /\ dec # Idle) =>
        /\ (probe.offset >= Len(elf) \/ NulsFromOffset = {}) => ~dec.some
        /\ dec.some => (NulsFromOffset # {} /\ dec.v = NameBytes)
        /\ (NulsFromOffset # {} /\ \A i \in 1 .. Len(NameBytes) :
                                        NameBytes[i] \in {65, 122})
              => dec.some

\* a name of two letters has been resolved at an offset that follows an
\* earlier name of the table
C17_Witness ==
    /\ probe.kind = "name" /\ dec # Idle /\ dec.some
    /\ probe.offset = 1 /\ elf[1] = 0
    /\ dec.v = <<122, 65>>

(***************************************************************************)
(* Properties of the segment type.                                         *)
(***************************************************************************)
\* the segment type of a 4-byte type value <<low half, high half>>: the
\* four GNU values first, then the reserved ranges by the high byte, and
\* None for every value that is not a generic type 0..7
PtOfValue(v, decoded) ==
    LET hb == v[2] \div 256 IN
    IF v[2] = 25716 /\ v[1] \in 58704 .. 58707
    THEN decoded = CASE v[1] = 58704 -> "PtGnuEhFrame"
                     [] v[1] = 58705 -> "PtGnuStack"
                     [] v[1] = 58706 -> "PtGnuRelro"
                     [] OTHER        -> "PtGnuProperty"
    ELSE /\ (hb \in 96 .. 111 => decoded = "PtOs")
         /\ (hb \in 112 .. 127 => decoded = "PtProc")
         /\ ((hb \notin 96 .. 127 /\ ~(v[2] = 0 /\ v[1] \in 0 .. 7))
                => decoded = "None")

\* C18: the segment type of a program-header entry is PtOs when the high
\* byte of its 4-byte type field is in 0x60..0x6F and PtProc when it is in
\* 0x70..0x7F, except that the GNU values 0x6474E550..0x6474E553 decode to
\* their own variants; every value outside the recognized ones decodes to
\* None, and no type value makes the parse of the entry fail.  The value
\* of the field is its four bytes taken least significant first, the order
\* in which the GNU values are the bytes 50..53 E5 74 64.
C18_SegmentTypeByHighByte ==
    (probe.kind = "program" /\ dec # Idle) =>
        /\ dec.ok
        /\ PtOfValue(from_le_bytes(SubSeq(elf, 1, 4)), dec.v.p_type)

\* the GNU value 0x6474E553, whose high byte 0x64 lies in the OS range, has
\* been decoded to its own variant
C18_Witness ==
    /\ probe.kind = "program" /\ dec # Idle /\ dec.ok
    /\ SubSeq(elf, 1, 4) = <<83, 229, 116, 100>>
    /\ dec.v.p_type = "PtGnuProperty"

(***************************************************************************)
(* Properties of the section-header entry.                                 *)
(***************************************************************************)
\* the section types of the type values written
ShTypeWritten ==
    CASE probe.logical.sh_type = <<2, 0>> -> "ShtSymTab"
      [] probe.logical.sh_type = <<3, 0>> -> "ShtStrTab"
      [] OTHER                            -> "ShtGnuHash"

\* the section header a parse of the whole written entry is to give
SectionWritten(h) ==
    LET L == probe.logical IN
    /\ h.sh_name = L.sh_name
    /\ (probe.e_data # "ElfData2Msb" => h.sh_type = ShTypeWritten)
    /\ h.sh_flags = as_usize(L.sh_flags)
    /\ h.sh_addr = as_usize(L.sh_addr)
    /\ h.sh_offset = as_usize(L.sh_offset)
    /\ h.sh_size = as_usize(L.sh_size)
    /\ h.sh_link = L.sh_link
    /\ h.sh_info = L.sh_info
    /\ h.sh_addralign = as_usize(L.sh_addralign)
    /\ h.sh_entsize = as_usize(L.sh_entsize)

\* C19: a section-header entry is decoded with flags, address, offset,
\* size, alignment and entry size as 4-byte fields in the 32-bit class (an
\* entry of 40 bytes) and as 8-byte fields in the 64-bit class (an entry of
\* 64 bytes), name, type, link and info being 4-byte fields in both; a
\* slice shorter than the layout of the class makes the parse fail with
\* OffsetCalculationFailure.
C19_SectionLayout ==
    (probe.kind = "section" /\ dec # Idle
     /\ probe.class \in {"Class32", "Class64"}) =>
        /\ Len(ShImage(probe.class, probe.logical, probe.e_data))
              = ShEntSize(probe.class)
        /\ Len(elf) < ShEntSize(probe.class) => dec = OffsetCalculationFailure
        /\ Len(elf) >= ShEntSize(probe.class) =>
              (dec.ok /\ SectionWritten(dec.v))

\* a 64-bit entry of 64 bytes has been decoded, with a link of FFFFFFFF
\* taken from four bytes, and the alignment after it, as written
C19_Witness ==
    /\ probe.kind = "section" /\ probe.class = "Class64" /\ Len(elf) = 64
    /\ dec # Idle /\ dec.ok
    /\ dec.v.sh_link = <<65535, 65535>> /\ dec.v.sh_info = <<7, 0>>
    /\ dec.v.sh_addralign = <<8, 0, 0, 0>>
    /\ dec.v.sh_offset = <<4660, 22136, 0, 0>>

(***************************************************************************)
(* Properties of the symbol-table iterator over a regular section.         *)
(***************************************************************************)
\* the size of a symbol entry of the class
SymEntSize(class) == IF class = "Class32" THEN 16 ELSE 24

\* the iterator was built, for a 32-bit or 64-bit file, over a section that
\* lies inside the buffer, whose entry size is at least that of the class
\* and whose size is a multiple of its entry size
SymSectionRegular ==
    /\ yit # Idle /\ yit.sh.some /\ yit.class \in {"Class32", "Class64"}
    /\ Small(yit.sh.v.sh_offset) /\ Small(yit.sh.v.sh_size)
    /\ ToNat(yit.sh.v.sh_offset) + ToNat(yit.sh.v.sh_size) <= Len(elf)
    /\ Small(yit.sh.v.sh_entsize)
    /\ ToNat(yit.sh.v.sh_entsize) >= SymEntSize(yit.class)
    /\ ToNat(yit.sh.v.sh_size) % ToNat(yit.sh.v.sh_entsize) = 0

\* the number of entries of the section
SymCount == ToNat(yit.sh.v.sh_size) \div ToNat(yit.sh.v.sh_entsize)

\* the symbol held by the bytes of the buffer from offset b on, in the
\* layout of the class and the byte order of the iterator
SymAt(b) ==
    LET int(s, w) == IF yit.data = "ElfData2Msb"
                     THEN from_be_bytes(SubSeq(elf, b + s + 1, b + s + w))
                     ELSE from_le_bytes(SubSeq(elf, b + s + 1, b + s + w))
    IN  IF yit.class = "Class32"
        THEN [st_name |-> int(0, 4), st_value |-> as_usize(int(4, 4)),
              st_size |-> as_usize(int(8, 4)),
              st_info |-> SymType_from(elf[b + 13]),
              st_other |-> <<elf[b + 14]>>, st_shndx |-> int(14, 2)]
        ELSE [st_name |-> int(0, 4), st_info |-> SymType_from(elf[b + 5]),
              st_other |-> <<elf[b + 6]>>, st_shndx |-> int(6, 2),
              st_value |-> int(8, 8), st_size |-> int(16, 8)]

\* C20: over a section inside the buffer with sh_entsize = E at least the
\* entry size of the class and sh_size = k * E, the symbol iterator yields
\* exactly k entries and then ends; the i-th (from 0) is the symbol held by
\* the bytes from sh_offset + i * E on, so that every entry decoded lies
\* inside the section's slice.
C20_RegularSectionYieldsAll ==
    SymSectionRegular =>
        /\ yit.ret # "panic"
        /\ Len(yit.yielded) <= SymCount
        /\ (yit.ret = "None" => Len(yit.yielded) = SymCount)
        /\ \A i \in 1 .. Len(yit.yielded) :
              yit.yielded[i] = SymAt(ToNat(yit.sh.v.sh_offset)
                                     + (i - 1) * ToNat(yit.sh.v.sh_entsize))

\* the iteration over a section of three 64-bit entries, in a buffer that
\* goes on after the section, has ended after the third
C20_Witness ==
    /\ SymSectionRegular /\ yit.class = "Class64"
    /\ SymCount = 3 /\ Len(yit.yielded) = 3 /\ yit.ret = "None"
    /\ Len(elf) >= ToNat(yit.sh.v.sh_offset) + ToNat(yit.sh.v.sh_size) + 24

(***************************************************************************)
(* Properties of the header parsers on short buffers.                      *)
(***************************************************************************)
\* the outcome C21 gives a parser for the buffer
ShortHeaderOutcome(r) ==
    /\ Len(elf) < 24 => r = BadElf
    /\ (Version6 /\ Version20 /\ Len(elf) < HeaderEnd)
          => r = OffsetCalculationFailure

\* C21: for a buffer with the magic, header parse fails with BadElf
\* whenever the buffer is shorter than 24 bytes, and with
\* OffsetCalculationFailure (not BadElf, not a success with defaulted
\* fields) whenever both version checks pass but the buffer ends before the
\* last header field: before offset 52 for the 32-bit class, before offset
\* 64 otherwise.
C21_ShortBufferErrors ==
    HasMagic =>
        /\ (fh # Idle => ShortHeaderOutcome(fh))
        /\ (eh # Idle => ShortHeaderOutcome(eh))

\* a 32-bit header that lacks only the last byte of its last field has been
\* refused by FileHeader::parse
C21_Witness ==
    /\ HasMagic /\ Version6 /\ Version20
    /\ elf[5] = 1 /\ Len(elf) = 51
    /\ fh = OffsetCalculationFailure

(***************************************************************************)
(* Properties of the iterators after the end of the sequence.              *)
(***************************************************************************)
\* C22: each of the three iterators is fused: once a call of next has
\* returned no item, every later call of next on the same iterator returns
\* no item either, whether the count reached zero, the parse of an entry
\* failed or the entry window left the section.
C22_Fused ==
    [][/\ (pit # Idle /\ pit.ret = "None") =>
              (pit'.ret = "None" /\ pit'.yielded = pit.yielded)
       /\ (sit # Idle /\ sit.ret = "None") =>
              (sit'.ret = "None" /\ sit'.yielded = sit.yielded)
       /\ (yit # Idle /\ yit.ret = "None") =>
              (yit'.ret = "None" /\ yit'.yielded = yit.yielded)]_vars

\* a symbol iterator over a section inside the buffer has been called again
\* after it had returned no item: two calls have failed to parse an entry
\* and nothing has been yielded
C22_Witness ==
    /\ yit # Idle /\ yit.sh.some /\ yit.class = "Class64"
    /\ yit.sh.v.sh_offset = U(TableOff) /\ yit.sh.v.sh_size = U(16)
    /\ yit.sh.v.sh_entsize = U(8)
    /\ yit.ret = "None" /\ yit.symnum >= 2 /\ yit.yielded = << >>

(***************************************************************************)
(* The bookkeeping of the program and section iterators.                   *)
(***************************************************************************)
\* the cursor of an iterator built at offset made that has yielded n
\* entries of size entsize
CursorAfter(made, n, entsize) == AddU(made, MulU(n, U(entsize)).sum).sum

\* count, cursor and ordinal in terms of the items yielded so far
CountersMatchYielded ==
    /\ pit # Idle =>
          /\ pit.phnum + Len(pit.yielded) = pit.made.count
          /\ pit.offset = CursorAfter(pit.made.offset, Len(pit.yielded),
                                      pit.phentsize)
    /\ sit # Idle =>
          /\ sit.shnum + Len(sit.yielded) = sit.made.count
          /\ sit.offset = CursorAfter(sit.made.offset, Len(sit.yielded),
                                      sit.shentsize)
          /\ sit.ndx = Len(sit.yielded)

\* a call of next that yields no item leaves count, cursor and ordinal
EmptyCallKeepsCounters ==
    /\ (pit # Idle /\ pit'.ret # "Some") =>
          (pit'.phnum = pit.phnum /\ pit'.offset = pit.offset)
    /\ (sit # Idle /\ sit'.ret # "Some") =>
          /\ sit'.shnum = sit.shnum /\ sit'.offset = sit.offset
          /\ sit'.ndx = sit.ndx

\* C23: in every reachable state of a program or section iterator the
\* remaining count plus the number of items yielded is the count it was
\* built with, its cursor is the offset it was built with plus the number
\* of items yielded times the entry size, and for the section iterator the
\* next ordinal is the number of items yielded; a call of next that yields
\* no item leaves count, cursor and ordinal unchanged.
C23_Bookkeeping == []CountersMatchYielded /\ [][EmptyCallKeepsCounters]_vars

\* a section iterator built with count 3 has yielded two 64-byte entries
C23_Witness ==
    /\ sit # Idle /\ sit.made.count = 3 /\ sit.shentsize = 64
    /\ Len(sit.yielded) = 2 /\ sit.shnum = 1 /\ sit.ndx = 2
    /\ sit.offset = U(ToNat(sit.made.offset) + 128)

(***************************************************************************)
(* The two header parsers against each other.                              *)
(***************************************************************************)
\* both parsers fail with the same error, or both succeed with the same
\* value in every field of the header
SameOutcome ==
    /\ fh.ok = eh.ok
    /\ ~fh.ok => fh.err = eh.err
    /\ fh.ok =>
          /\ fh.v.e_class = eh.v.e_class /\ fh.v.e_data = eh.v.e_data
          /\ fh.v.e_abi = eh.v.e_abi /\ fh.v.e_type = eh.v.e_type
          /\ fh.v.e_machine = eh.v.e_machine
          /\ fh.v.e_entry = eh.v.e_entry /\ fh.v.e_phoff = eh.v.e_phoff
          /\ fh.v.e_shoff = eh.v.e_shoff /\ fh.v.e_flags = eh.v.e_flags
          /\ fh.v.e_ehsize = eh.v.e_ehsize
          /\ fh.v.e_phentsize = eh.v.e_phentsize
          /\ fh.v.e_phnum = eh.v.e_phnum
          /\ fh.v.e_shentsize = eh.v.e_shentrysize
          /\ fh.v.e_shnum = eh.v.e_shnum
          /\ fh.v.e_shstrndx = eh.v.e_shstrndx

\* the part of C24 the code meets: the parsers agree on every buffer whose
\* class byte is not 1
ParsersAgreeWide ==
    (fh # Idle /\ eh # Idle /\ ~(Len(elf) >= 5 /\ elf[5] = 1)) => SameOutcome

\* C24: on a 64-bit host Elf::parse (lib.rs) and FileHeader::parse
\* (file.rs) agree on every buffer, of 32-bit, 64-bit and unknown class:
\* both fail with the same error or both succeed with equal header fields.
C24_ParsersAgree ==
    (fh # Idle /\ eh # Idle) => SameOutcome

\* C25: a program-header entry whose type field is the little-endian value
\* 7 decodes to the thread-local-storage segment type PtTls, not to None
\* (every variant of the segment type other than None is the type of some
\* pattern of four bytes).
C25_TlsDecoded ==
    (probe.kind = "program" /\ dec # Idle /\ dec.ok
     /\ SubSeq(elf, 1, 4) = <<7, 0, 0, 0>>) =>
        dec.v.p_type = "PtTls"

====
